---- MODULE Spec2Model ----
(***************************************************************************)
(* Model of app.py (version 5.1), the Streamlit "AI Requirements           *)
(* Assistant".  Streamlit runs the whole script top to bottom on page      *)
(* load and again on every widget interaction; one action of this model    *)
(* is one such interaction together with the script run it triggers.       *)
(*                                                                         *)
(* Optional values (Python None) are sequences of length at most one:      *)
(* <<>> is None and <<x>> is the value x.  Texts are sequences of Unicode  *)
(* code points, byte strings are sequences of 0..255, and user-facing      *)
(* messages are sequences of words.                                        *)
(***************************************************************************)
EXTENDS Integers, Sequences, FiniteSets, TLC

\* ---------------------------------------------------------------- bounds
MaxClicks == 2
MaxClock == 1

\* ------------------------------------------------------- optional values
None == <<>>
Some(x) == <<x>>
IsSome(o) == o # <<>>

\* ------------------------------------------------------- configuration
NestedKeys == {"api_key", "endpoint", "deployment_name"}
FlatKeys == {"AZURE_OPENAI_API_KEY", "AZURE_OPENAI_ENDPOINT",
             "AZURE_CHAT_DEPLOYMENT_NAME", "OPENAI_API_KEY"}
\* values a secret can hold: the empty string, a well-formed value and a
\* value that is not a URL the HTTP layer accepts
Values == {"", "r1", "::not-a-url::"}
FlatValues == {"flat-1"}
InvalidURLs == {"::not-a-url::"}

Sections == UNION {[S -> Values] : S \in SUBSET NestedKeys}
\* the flat shapes tried: none, the standard-provider key alone, the three
\* hosted-deployment keys without and with it, and two partial shapes
FlatShapes ==
    {{}, {"OPENAI_API_KEY"},
     FlatKeys \ {"OPENAI_API_KEY"}, FlatKeys,
     {"AZURE_OPENAI_ENDPOINT", "AZURE_CHAT_DEPLOYMENT_NAME"},
     {"AZURE_OPENAI_API_KEY"}}
FlatConfigs == UNION {[S -> FlatValues] : S \in FlatShapes}

\* a secrets source with the flat keys of f and no [azure_openai] section
FlatOnly(f) == [k \in DOMAIN f |-> f[k]]
\* a secrets source with the flat keys of f and the section sect
WithSection(f, sect) ==
    [k \in DOMAIN f \cup {"azure_openai"} |->
        IF k = "azure_openai" THEN sect ELSE f[k]]

SecretSources ==
    {FlatOnly(f) : f \in FlatConfigs}
    \cup {WithSection(f, sect) : f \in FlatConfigs, sect \in Sections}

\* Python truthiness of a secret value
Truthy(v) == v # ""

\* ---------------------------------------------------------------- texts
\* U+0041 'A', U+0020 ' ', U+00E9, U+20AC
Texts == {<<>>, <<65>>, <<32, 65, 32>>, <<233, 8364>>}

\* str.encode('utf-8') of one code point
EncodeCodePoint(c) ==
    IF c < 128 THEN <<c>>
    ELSE IF c < 2048 THEN <<192 + (c \div 64), 128 + (c % 64)>>
    ELSE IF c < 65536 THEN
        <<224 + (c \div 4096), 128 + ((c \div 64) % 64), 128 + (c % 64)>>
    ELSE <<240 + (c \div 262144), 128 + ((c \div 4096) % 64),
           128 + ((c \div 64) % 64), 128 + (c % 64)>>

RECURSIVE encode(_)
\* str.encode('utf-8')
encode(text) ==
    IF text = <<>> THEN <<>>
    ELSE EncodeCodePoint(Head(text)) \o encode(Tail(text))

IsCont(b) == b >= 128 /\ b < 192

\* length of the UTF-8 sequence that starts with lead byte b, 0 if b is
\* not a lead byte
SeqLen(b) ==
    IF b < 128 THEN 1
    ELSE IF b >= 194 /\ b < 224 THEN 2
    ELSE IF b >= 224 /\ b < 240 THEN 3
    ELSE IF b >= 240 /\ b < 245 THEN 4
    ELSE 0

\* the code point of a well-formed sequence of n bytes at the head of bs
CodePointOf(bs, n) ==
    IF n = 1 THEN bs[1]
    ELSE IF n = 2 THEN (bs[1] - 192) * 64 + (bs[2] - 128)
    ELSE IF n = 3 THEN
        (bs[1] - 224) * 4096 + (bs[2] - 128) * 64 + (bs[3] - 128)
    ELSE (bs[1] - 240) * 262144 + (bs[2] - 128) * 4096
         + (bs[3] - 128) * 64 + (bs[4] - 128)

\* the strict decoder rejects overlong forms, surrogates and > U+10FFFF
ValidCodePoint(c, n) ==
    /\ n = 3 => c >= 2048 /\ ~(c >= 55296 /\ c < 57344)
    /\ n = 4 => c >= 65536 /\ c < 1114112

RECURSIVE decode(_)
\* bytes.decode("utf-8"): Some(text), or None for UnicodeDecodeError
decode(bs) ==
    IF bs = <<>> THEN Some(<<>>)
    ELSE LET n == SeqLen(Head(bs)) IN
         IF n = 0 \/ Len(bs) < n THEN None
         ELSE IF \E i \in 2..n : ~IsCont(bs[i]) THEN None
         ELSE IF ~ValidCodePoint(CodePointOf(bs, n), n) THEN None
         ELSE LET rest == decode(SubSeq(bs, n + 1, Len(bs))) IN
              IF rest = None THEN None
              ELSE Some(<<CodePointOf(bs, n)>> \o rest[1])

\* uploaded .txt files: a UTF-8 transcript, the empty file and a file that
\* is not UTF-8
Files == {<<195, 169, 226, 130, 172>>, <<>>, <<65, 233>>}

\* ------------------------------------------------------------- messages
\* st.error text of the KeyError branch
KeyErrorMessage ==
    <<"Azure", "credentials", "are", "not", "set", "correctly.", "Make",
      "sure", "you", "have", "an", "[azure_openai]", "section", "in",
      "your", "secrets.">>

\* st.error text of the "not all(...)" branch
EmptyMessage ==
    <<"One", "or", "more", "Azure", "secrets", "are", "missing", "or",
      "empty.", "Please", "check", "your", "app", "settings.">>

\* the message without the exception's text
ServiceMessage_NoDetail(e) ==
    <<"An", "error", "occurred", "while", "contacting", "the", "AI",
      "service.">>

\* f"An error occurred while contacting the AI service: {e}"
ServiceMessage(e) ==
    <<"An", "error", "occurred", "while", "contacting", "the", "AI",
      "service:">> \o e.text

\* exceptions, each with the words of str(e)
InvalidURLError ==
    [type |-> "InvalidURL", text |-> <<"Invalid", "URL">>]
IndexError ==
    [type |-> "IndexError",
     text |-> <<"list", "index", "out", "of", "range">>]
UnicodeDecodeError ==
    [type |-> "UnicodeDecodeError",
     text |-> <<"'utf-8'", "codec", "can't", "decode", "byte">>]
ProviderErrors ==
    {[type |-> "AuthenticationError",
      text |-> <<"Incorrect", "API", "key", "provided">>],
     [type |-> "APIConnectionError", text |-> <<"Connection", "error.">>],
     [type |-> "RateLimitError",
      text |-> <<"Rate", "limit", "reached">>]}

\* the prompt literal, which no input reaches
HYPER_DETAILED_PROMPT == "HYPER_DETAILED_PROMPT"
API_VERSION == "2024-02-15-preview"
\* temperature=0.0
TEMPERATURE == 0

\* what the chat-completion endpoint does with one request: it raises, or
\* it answers with a list of choices whose content is a text or None
Replies ==
    {[raises |-> Some(e), choices |-> <<>>] : e \in ProviderErrors}
    \cup {[raises |-> None, choices |-> <<>>]}
    \cup {[raises |-> None, choices |-> <<Some(t)>>] : t \in Texts}
    \cup {[raises |-> None, choices |-> <<None>>]}
    \cup {[raises |-> None, choices |-> <<Some(t), Some(<<65>>)>>] :
             t \in {<<32, 65, 32>>}}

\* ---------------------------------------------------------- the script
AzureNames == <<"AZURE_API_KEY", "AZURE_ENDPOINT", "AZURE_DEPLOYMENT_NAME">>
SecretNames == <<"api_key", "endpoint", "deployment_name">>

\* Assigned with endpoint and deployment_name read into each other's
\* variable
Assigned_Swapped(sect, n) ==
    [v \in {AzureNames[i] : i \in 1..n} |->
        sect[(IF n = 3 THEN <<"api_key", "deployment_name", "endpoint">>
                       ELSE SecretNames)
                [CHOOSE i \in 1..n : AzureNames[i] = v]]]

\* the module-level AZURE_* variables bound after reading the first n keys
Assigned(sect, n) ==
    [v \in {AzureNames[i] : i \in 1..n} |->
        sect[SecretNames[CHOOSE i \in 1..n : AzureNames[i] = v]]]

\* number of leading keys of SecretNames the section holds
Readable(sect) ==
    IF "api_key" \notin DOMAIN sect THEN 0
    ELSE IF "endpoint" \notin DOMAIN sect THEN 1
    ELSE IF "deployment_name" \notin DOMAIN sect THEN 2
    ELSE 3

BlankBundle == [v \in {AzureNames[i] : i \in 1..3} |-> ""]

\* SecretsCheck whose KeyError branch shows the message but lacks st.stop()
SecretsCheck_NoStop(s) ==
    IF "azure_openai" \notin DOMAIN s
    THEN [stop |-> FALSE, error |-> Some(KeyErrorMessage),
          azure |-> BlankBundle]
    ELSE LET azure_secrets == s["azure_openai"]
             n == Readable(azure_secrets)
             azure == Assigned(azure_secrets, n)
         IN  IF n < 3
             THEN [stop |-> FALSE, error |-> Some(KeyErrorMessage),
                   azure |-> BlankBundle]
             ELSE IF ~(\A v \in DOMAIN azure : Truthy(azure[v]))
             THEN [stop |-> TRUE, error |-> Some(EmptyMessage),
                   azure |-> azure]
             ELSE [stop |-> FALSE, error |-> None, azure |-> azure]

\* SecretsCheck with "not any(...)" in place of "not all(...)"
SecretsCheck_Any(s) ==
    IF "azure_openai" \notin DOMAIN s
    THEN [stop |-> TRUE, error |-> Some(KeyErrorMessage),
          azure |-> Assigned(<<>>, 0)]
    ELSE LET azure_secrets == s["azure_openai"]
             n == Readable(azure_secrets)
             azure == Assigned(azure_secrets, n)
         IN  IF n < 3
             THEN [stop |-> TRUE, error |-> Some(KeyErrorMessage),
                   azure |-> azure]
             ELSE IF ~(\E v \in DOMAIN azure : Truthy(azure[v]))
             THEN [stop |-> TRUE, error |-> Some(EmptyMessage),
                   azure |-> azure]
             ELSE [stop |-> FALSE, error |-> None, azure |-> azure]

\* SecretsCheck that falls back to the standard provider when the section
\* is absent and OPENAI_API_KEY is set
SecretsCheck_Fallback(s) ==
    IF "azure_openai" \notin DOMAIN s
    THEN IF "OPENAI_API_KEY" \in DOMAIN s
         THEN [stop |-> FALSE, error |-> None,
               azure |-> [AZURE_API_KEY |-> s["OPENAI_API_KEY"],
                          AZURE_ENDPOINT |-> "https://api.openai.com/v1",
                          AZURE_DEPLOYMENT_NAME |-> "gpt-4"]]
         ELSE [stop |-> TRUE, error |-> Some(KeyErrorMessage),
               azure |-> Assigned(<<>>, 0)]
    ELSE LET azure_secrets == s["azure_openai"]
             n == Readable(azure_secrets)
             azure == Assigned(azure_secrets, n)
         IN  IF n < 3
             THEN [stop |-> TRUE, error |-> Some(KeyErrorMessage),
                   azure |-> azure]
             ELSE IF ~(\A v \in DOMAIN azure : Truthy(azure[v]))
             THEN [stop |-> TRUE, error |-> Some(EmptyMessage),
                   azure |-> azure]
             ELSE [stop |-> FALSE, error |-> None, azure |-> azure]

\* the "Secrets Check" block: stop is TRUE when st.stop() is reached
SecretsCheck(s) ==
    IF "azure_openai" \notin DOMAIN s
    THEN [stop |-> TRUE, error |-> Some(KeyErrorMessage),
          azure |-> Assigned(<<>>, 0)]
    ELSE LET azure_secrets == s["azure_openai"]
             n == Readable(azure_secrets)
             azure == Assigned(azure_secrets, n)
         IN  IF n < 3
             THEN [stop |-> TRUE, error |-> Some(KeyErrorMessage),
                   azure |-> azure]
             ELSE IF ~(\A v \in DOMAIN azure : Truthy(azure[v]))
             THEN [stop |-> TRUE, error |-> Some(EmptyMessage),
                   azure |-> azure]
             ELSE [stop |-> FALSE, error |-> None, azure |-> azure]

\* openai.AzureOpenAI(...): None, or the exception the constructor raises
ClientError(azure_endpoint) ==
    IF azure_endpoint \in InvalidURLs THEN Some(InvalidURLError) ELSE None

\* the request client.chat.completions.create sends
Request(transcript_text, api_key, azure_endpoint, deployment_name) ==
    [azure_endpoint |-> azure_endpoint,
     api_key |-> api_key,
     api_version |-> API_VERSION,
     model |-> deployment_name,
     messages |-> <<[role |-> "system", content |-> HYPER_DETAILED_PROMPT],
                    [role |-> "user", content |-> transcript_text]>>,
     temperature |-> TEMPERATURE]

RECURSIVE lstrip(_)
\* str.lstrip() for the space character
lstrip(text) ==
    IF text # <<>> /\ Head(text) = 32 THEN lstrip(Tail(text)) ELSE text

RECURSIVE rstrip(_)
\* str.rstrip() for the space character
rstrip(text) ==
    IF text # <<>> /\ text[Len(text)] = 32
    THEN rstrip(SubSeq(text, 1, Len(text) - 1)) ELSE text

\* get_ai_analysis returning content.strip()
get_ai_analysis_Strip(transcript_text, api_key, azure_endpoint, deployment_name, reply) ==
    LET request == Request(transcript_text, api_key, azure_endpoint,
                           deployment_name)
    IN  IF IsSome(ClientError(azure_endpoint))
        THEN [ret |-> None,
              st_error |-> Some(ServiceMessage(ClientError(azure_endpoint)[1])),
              raised |-> None, sent |-> <<>>]
        ELSE IF IsSome(reply.raises)
        THEN [ret |-> None,
              st_error |-> Some(ServiceMessage(reply.raises[1])),
              raised |-> None, sent |-> <<request>>]
        ELSE IF reply.choices = <<>>
        THEN [ret |-> None,
              st_error |-> Some(ServiceMessage(IndexError)),
              raised |-> None, sent |-> <<request>>]
        ELSE [ret |-> IF IsSome(reply.choices[1])
                      THEN Some(rstrip(lstrip(reply.choices[1][1])))
                      ELSE None,
              st_error |-> None,
              raised |-> None, sent |-> <<request>>]

\* get_ai_analysis that sends the request a second time when the first
\* attempt raises
get_ai_analysis_Retry(transcript_text, api_key, azure_endpoint, deployment_name, reply) ==
    LET request == Request(transcript_text, api_key, azure_endpoint,
                           deployment_name)
    IN  IF IsSome(ClientError(azure_endpoint))
        THEN [ret |-> None,
              st_error |-> Some(ServiceMessage(ClientError(azure_endpoint)[1])),
              raised |-> None, sent |-> <<>>]
        ELSE IF IsSome(reply.raises)
        THEN [ret |-> None,
              st_error |-> Some(ServiceMessage(reply.raises[1])),
              raised |-> None, sent |-> <<request, request>>]
        ELSE IF reply.choices = <<>>
        THEN [ret |-> None,
              st_error |-> Some(ServiceMessage(IndexError)),
              raised |-> None, sent |-> <<request>>]
        ELSE [ret |-> reply.choices[1], st_error |-> None,
              raised |-> None, sent |-> <<request>>]

\* get_ai_analysis without the try/except around the provider call
get_ai_analysis_Propagate(transcript_text, api_key, azure_endpoint, deployment_name, reply) ==
    LET request == Request(transcript_text, api_key, azure_endpoint,
                           deployment_name)
    IN  IF IsSome(ClientError(azure_endpoint))
        THEN [ret |-> None, st_error |-> None,
              raised |-> ClientError(azure_endpoint), sent |-> <<>>]
        ELSE IF IsSome(reply.raises)
        THEN [ret |-> None, st_error |-> None,
              raised |-> reply.raises, sent |-> <<request>>]
        ELSE IF reply.choices = <<>>
        THEN [ret |-> None, st_error |-> None,
              raised |-> Some(IndexError), sent |-> <<request>>]
        ELSE [ret |-> reply.choices[1], st_error |-> None,
              raised |-> None, sent |-> <<request>>]

\* get_ai_analysis: ret is the returned value (None or Some(text)),
\* st_error the message it displays, raised the exception that leaves the
\* function (none does: "except Exception" covers the whole body), sent
\* the requests it issued; reply is what the endpoint does with a request
get_ai_analysis(transcript_text, api_key, azure_endpoint, deployment_name, reply) ==
    LET request == Request(transcript_text, api_key, azure_endpoint,
                           deployment_name)
    IN  IF IsSome(ClientError(azure_endpoint))
        THEN [ret |-> None,
              st_error |-> Some(ServiceMessage(ClientError(azure_endpoint)[1])),
              raised |-> None, sent |-> <<>>]
        ELSE IF IsSome(reply.raises)
        THEN [ret |-> None,
              st_error |-> Some(ServiceMessage(reply.raises[1])),
              raised |-> None, sent |-> <<request>>]
        ELSE IF reply.choices = <<>>
        THEN [ret |-> None,
              st_error |-> Some(ServiceMessage(IndexError)),
              raised |-> None, sent |-> <<request>>]
        ELSE [ret |-> reply.choices[1], st_error |-> None,
              raised |-> None, sent |-> <<request>>]

DigitChars == <<"0", "1", "2", "3", "4", "5", "6", "7", "8", "9">>
Pad2(n) ==
    <<DigitChars[((n \div 10) % 10) + 1], DigitChars[(n % 10) + 1]>>
Pad4(n) == Pad2(n \div 100) \o Pad2(n % 100)

\* datetime.strftime("%Y%m%d_%H%M%S")
strftime(t) ==
    Pad4(t.year) \o Pad2(t.month) \o Pad2(t.day) \o <<"_">>
    \o Pad2(t.hour) \o Pad2(t.minute) \o Pad2(t.second)

\* f"Lighthouse_Requirements_{timestamp}.txt"
FileName(t) == <<"Lighthouse_Requirements_">> \o strftime(t) \o <<".txt">>

\* "if analysis_result:" and what it puts on the page
ShowResult(analysis_result, t) ==
    IF IsSome(analysis_result) /\ analysis_result[1] # <<>>
    THEN [success |-> TRUE,
          markdown |-> analysis_result,
          download |-> Some([data |-> encode(analysis_result[1]),
                             file_name |-> FileName(t),
                             mime |-> "text/plain"])]
    ELSE [success |-> FALSE, markdown |-> None, download |-> None]

Blank == [success |-> FALSE, markdown |-> None, download |-> None]

\* one run of the script from top to bottom: s the secrets, file the
\* uploader's value, clicked whether the generate button triggered the run
RunScript(s, file, clicked, reply, t) ==
    LET sc == SecretsCheck(s) IN
    IF sc.stop
    THEN [halted |-> TRUE, azure |-> sc.azure, error |-> sc.error,
          uploader |-> FALSE, button |-> FALSE, exception |-> None,
          call |-> None, sent |-> <<>>, outcome |-> <<>>, page |-> Blank]
    ELSE IF file = None
    THEN [halted |-> FALSE, azure |-> sc.azure, error |-> None,
          uploader |-> TRUE, button |-> FALSE, exception |-> None,
          call |-> None, sent |-> <<>>, outcome |-> <<>>, page |-> Blank]
    ELSE IF decode(file[1]) = None
    THEN [halted |-> FALSE, azure |-> sc.azure, error |-> None,
          uploader |-> TRUE, button |-> FALSE,
          exception |-> Some(UnicodeDecodeError),
          call |-> None, sent |-> <<>>, outcome |-> <<>>, page |-> Blank]
    ELSE IF ~clicked
    THEN [halted |-> FALSE, azure |-> sc.azure, error |-> None,
          uploader |-> TRUE, button |-> TRUE, exception |-> None,
          call |-> None, sent |-> <<>>, outcome |-> <<>>, page |-> Blank]
    ELSE LET r == get_ai_analysis(decode(file[1])[1],
                                  sc.azure["AZURE_API_KEY"],
                                  sc.azure["AZURE_ENDPOINT"],
                                  sc.azure["AZURE_DEPLOYMENT_NAME"], reply)
         IN  IF IsSome(r.raised)
             THEN [halted |-> FALSE, azure |-> sc.azure,
                   error |-> r.st_error,
                   uploader |-> TRUE, button |-> TRUE,
                   exception |-> r.raised,
                   call |-> Some([reply |-> reply, ret |-> None]),
                   sent |-> r.sent, outcome |-> <<"error">>,
                   page |-> Blank]
             ELSE [halted |-> FALSE, azure |-> sc.azure,
                   error |-> r.st_error,
                   uploader |-> TRUE, button |-> TRUE, exception |-> None,
                   call |-> Some([reply |-> reply, ret |-> r.ret]),
                   sent |-> r.sent,
                   outcome |-> IF IsSome(r.st_error) THEN <<"error">>
                               ELSE <<"ok">>,
                   page |-> ShowResult(r.ret, t)]

\* ---------------------------------------------------------------- state
VARIABLES
    secrets,        \* st.secrets, fixed for the life of the process
    loaded,         \* the page has been opened (the script has run once)
    halted,         \* the last run ended in st.stop()
    azure,          \* the AZURE_* variables the last run bound
    uploaded_file,  \* the uploader's value: None or Some(bytes)
    uploader,       \* the last run rendered the file uploader
    button,         \* the last run rendered the generate button
    error,          \* st.error message on the page, or None
    exception,      \* uncaught exception that ended the last run, or None
    call,           \* the last run's get_ai_analysis call: None, or
                    \* Some([reply, ret])
    page,           \* success banner, rendered markdown, download button
    requests,       \* every chat-completion request issued so far
    log,            \* one entry per generate-button click so far:
                    \* "error" if the click ended in an error, else "ok"
    now             \* the wall clock

vars == <<secrets, loaded, halted, azure, uploaded_file, uploader, button,
          error, exception, call, page, requests, log, now>>

NoReply == [raises |-> None, choices |-> <<>>]

\* the script run an interaction triggers, and what it leaves behind
Rerun(file, clicked, reply) ==
    LET run == RunScript(secrets, file, clicked, reply, now) IN
    /\ halted' = run.halted
    /\ azure' = run.azure
    /\ uploader' = run.uploader
    /\ button' = run.button
    /\ error' = run.error
    /\ exception' = run.exception
    /\ call' = run.call
    /\ page' = run.page
    /\ requests' = requests \o run.sent
    /\ log' = log \o run.outcome

Init ==
    /\ secrets \in SecretSources
    /\ loaded = FALSE
    /\ halted = FALSE
    /\ azure = <<>>
    /\ uploaded_file = None
    /\ uploader = FALSE
    /\ button = FALSE
    /\ error = None
    /\ exception = None
    /\ call = None
    /\ page = Blank
    /\ requests = <<>>
    /\ log = <<>>
    /\ now = [year |-> 2024, month |-> 1, day |-> 1,
              hour |-> 0, minute |-> 0, second |-> 0]

\* the user opens the page
Load ==
    /\ ~loaded
    /\ loaded' = TRUE
    /\ Rerun(None, FALSE, NoReply)
    /\ UNCHANGED <<secrets, uploaded_file, now>>

\* the user picks a .txt file in the uploader
Upload(f) ==
    /\ loaded /\ uploader
    /\ uploaded_file # Some(f)
    /\ uploaded_file' = Some(f)
    /\ Rerun(Some(f), FALSE, NoReply)
    /\ UNCHANGED <<secrets, loaded, now>>

\* the user removes the file from the uploader
RemoveFile ==
    /\ loaded /\ uploader
    /\ uploaded_file # None
    /\ uploaded_file' = None
    /\ Rerun(None, FALSE, NoReply)
    /\ UNCHANGED <<secrets, loaded, now>>

\* the user presses the generate button (the analyze action); reply is
\* what the endpoint does with the request, if one is sent
Generate(reply) ==
    /\ loaded /\ button
    /\ Len(log) < MaxClicks
    /\ Rerun(uploaded_file, TRUE, reply)
    /\ UNCHANGED <<secrets, loaded, uploaded_file, now>>

\* the user presses the download button, which reruns the script
Download ==
    /\ loaded /\ IsSome(page.download)
    /\ Rerun(uploaded_file, FALSE, NoReply)
    /\ UNCHANGED <<secrets, loaded, uploaded_file, now>>

\* time passes
Tick ==
    /\ now.second < MaxClock
    /\ now' = [now EXCEPT !.second = @ + 1]
    /\ UNCHANGED <<secrets, loaded, halted, azure, uploaded_file, uploader,
                   button, error, exception, call, page, requests, log>>

Next ==
    \/ Load
    \/ \E f \in Files : Upload(f)
    \/ RemoveFile
    \/ \E reply \in Replies : Generate(reply)
    \/ Download
    \/ Tick

Spec == Init /\ [][Next]_vars

\* ------------------------------------------------------------ vocabulary
\* sub occurs in msg as a run of consecutive words
Contains(msg, sub) ==
    \E i \in 0..(Len(msg) - Len(sub)) : SubSeq(msg, i + 1, i + Len(sub)) = sub

\* the word w occurs in msg
Mentions(msg, w) == \E i \in DOMAIN msg : msg[i] = w

HasSection(s) == "azure_openai" \in DOMAIN s

\* the section holds all three keys with non-empty values
FullNested(s) ==
    /\ HasSection(s)
    /\ \A k \in NestedKeys :
          k \in DOMAIN s["azure_openai"] /\ s["azure_openai"][k] # ""

FlatAzureKeys == FlatKeys \ {"OPENAI_API_KEY"}

\* the flat shape holds all three hosted-deployment keys, non-empty
FullFlat(s) == \A k \in FlatAzureKeys : k \in DOMAIN s /\ s[k] # ""

\* the credential bundle of the nested shape
NestedBundle(s) ==
    [AZURE_API_KEY |-> s["azure_openai"]["api_key"],
     AZURE_ENDPOINT |-> s["azure_openai"]["endpoint"],
     AZURE_DEPLOYMENT_NAME |-> s["azure_openai"]["deployment_name"]]

\* the credential bundle of the flat shape
FlatBundle(s) ==
    [AZURE_API_KEY |-> s["AZURE_OPENAI_API_KEY"],
     AZURE_ENDPOINT |-> s["AZURE_OPENAI_ENDPOINT"],
     AZURE_DEPLOYMENT_NAME |-> s["AZURE_CHAT_DEPLOYMENT_NAME"]]

\* no request has been made and neither the uploader nor the generate
\* button is on the page
Gated ==
    /\ requests = <<>> /\ log = <<>> /\ call = None
    /\ ~uploader /\ ~button /\ uploaded_file = None
    /\ ~(\E reply \in Replies : ENABLED Generate(reply))
    /\ ~(\E f \in Files : ENABLED Upload(f))

\* ---------------------------------------------------------------- C1
\* C1: when the secrets hold none of the recognized keys, the secrets
\* check fails with the configuration error and stops the script, and from
\* then on no request is ever made and neither the uploader nor the
\* generate button is ever reachable.
C1_EmptyConfigHalts ==
    (loaded /\ DOMAIN secrets = {}) =>
        /\ halted
        /\ error = Some(KeyErrorMessage)
        /\ Gated

C1_Witness == loaded /\ DOMAIN secrets = {} /\ halted

\* ---------------------------------------------------------------- C2
\* a hosted-deployment value is absent or empty while the section, or a
\* part of the flat shape, is present
PartialHosted(s) ==
    \/ /\ HasSection(s)
       /\ \E k \in NestedKeys :
             k \notin DOMAIN s["azure_openai"] \/ s["azure_openai"][k] = ""
    \/ /\ ~HasSection(s)
       /\ \E k \in FlatAzureKeys : k \in DOMAIN s
       /\ \E k \in FlatAzureKeys : k \notin DOMAIN s

\* C2: when a hosted-deployment value is absent or is the empty string
\* while others are present, the secrets check fails and stops the script,
\* for an empty value as for an absent key; no request is made with blank
\* credentials and an OPENAI_API_KEY in the source changes nothing.
C2_PartialConfigHalts ==
    (loaded /\ PartialHosted(secrets)) =>
        /\ halted
        /\ IsSome(error)
        /\ Gated

\* api_key is empty, the other two values are set, and the source also
\* holds a standard-provider key
C2_Witness ==
    /\ loaded /\ halted
    /\ HasSection(secrets)
    /\ DOMAIN secrets["azure_openai"] = NestedKeys
    /\ secrets["azure_openai"]["api_key"] = ""
    /\ secrets["azure_openai"]["endpoint"] # ""
    /\ secrets["azure_openai"]["deployment_name"] # ""
    /\ "OPENAI_API_KEY" \in DOMAIN secrets
    /\ error = Some(EmptyMessage)

\* ---------------------------------------------------------------- C3
OnlyStandardKey(s) == DOMAIN s = {"OPENAI_API_KEY"}

\* C3 as stated: a source holding only OPENAI_API_KEY resolves, the script
\* goes on to the uploader and no configuration error is shown.
C3_StandardKeyResolves ==
    (loaded /\ OnlyStandardKey(secrets)) =>
        ~halted /\ error = None /\ uploader

\* C3 amended: a source holding only OPENAI_API_KEY fails the secrets
\* check with the configuration error and stops the script; no provider is
\* selected, no credential is bound and no request is made.
C3_StandardKeyHalts ==
    (loaded /\ OnlyStandardKey(secrets)) =>
        /\ halted
        /\ error = Some(KeyErrorMessage)
        /\ azure = <<>>
        /\ Gated

C3_Witness == loaded /\ OnlyStandardKey(secrets) /\ halted

\* ---------------------------------------------------------------- C4
\* C4 as stated: when endpoint, deployment and key are all set, in the
\* flat shape or in the section, the check passes and the bundle holds
\* those values.
C4_FlatOrNestedResolves ==
    (loaded /\ (FullNested(secrets) \/ FullFlat(secrets))) =>
        /\ ~halted
        /\ \/ FullNested(secrets) /\ azure = NestedBundle(secrets)
           \/ FullFlat(secrets) /\ azure = FlatBundle(secrets)

\* C4 amended: when the azure_openai section holds non-empty api_key,
\* endpoint and deployment_name, the check passes, the bundle holds
\* exactly those values and every request is made with them; the flat
\* keys are not read.
C4_NestedResolves ==
    (loaded /\ FullNested(secrets)) =>
        /\ ~halted
        /\ azure = NestedBundle(secrets)
        /\ \A i \in DOMAIN requests :
              /\ requests[i].api_key = secrets["azure_openai"]["api_key"]
              /\ requests[i].azure_endpoint
                    = secrets["azure_openai"]["endpoint"]
              /\ requests[i].model
                    = secrets["azure_openai"]["deployment_name"]

\* the endpoint differs from the key and from the deployment name, so a
\* bundle with values exchanged would show, and a request has been made
C4_Witness ==
    /\ loaded /\ FullNested(secrets)
    /\ secrets["azure_openai"]["endpoint"]
          # secrets["azure_openai"]["deployment_name"]
    /\ secrets["azure_openai"]["endpoint"]
          # secrets["azure_openai"]["api_key"]
    /\ azure = NestedBundle(secrets)
    /\ requests # <<>>

\* ---------------------------------------------------------------- C5
\* the last run called get_ai_analysis, the client was constructed, and
\* the endpoint answered with at least one choice
CallSucceeded ==
    /\ IsSome(call)
    /\ ClientError(azure["AZURE_ENDPOINT"]) = None
    /\ call[1].reply.raises = None
    /\ call[1].reply.choices # <<>>

\* the content of the first choice of the last call's answer
FirstContent == call[1].reply.choices[1]

\* C5: when the chat-completion call succeeds with first content T,
\* get_ai_analysis returns exactly T; whatever it returns, and whatever the
\* page renders, is the whole first content or nothing.
C5_ResultVerbatim ==
    /\ CallSucceeded => call[1].ret = FirstContent
    /\ IsSome(call) =>
          \/ call[1].ret = None
          \/ CallSucceeded /\ call[1].ret = FirstContent
    /\ \/ page.markdown = None
       \/ CallSucceeded /\ page.markdown = FirstContent

\* a text with leading and trailing spaces came back and was returned
C5_Witness ==
    /\ CallSucceeded
    /\ FirstContent = Some(<<32, 65, 32>>)
    /\ call[1].ret = Some(<<32, 65, 32>>)
    /\ page.markdown = Some(<<32, 65, 32>>)

\* ---------------------------------------------------------------- C6
\* the last run called get_ai_analysis and an exception was raised inside
\* it: by the constructor, by the request, or by choices[0] on an empty
\* list of choices
CallRaised == IsSome(call) /\ ~CallSucceeded

\* the exception raised inside the last call
RaisedError ==
    IF IsSome(ClientError(azure["AZURE_ENDPOINT"]))
    THEN ClientError(azure["AZURE_ENDPOINT"])[1]
    ELSE IF IsSome(call[1].reply.raises) THEN call[1].reply.raises[1]
    ELSE IndexError

\* C6: whatever is raised inside get_ai_analysis, no exception reaches the
\* caller, the function returns None, and the message on the page contains
\* the exception's text.
C6_ErrorsCaught ==
    CallRaised =>
        /\ exception = None
        /\ call[1].ret = None
        /\ IsSome(error)
        /\ Contains(error[1], RaisedError.text)
        /\ ~halted

\* the request raised a provider error and its text is on the page
C6_Witness ==
    /\ CallRaised
    /\ IsSome(call[1].reply.raises)
    /\ ClientError(azure["AZURE_ENDPOINT"]) = None
    /\ IsSome(error)
    /\ Contains(error[1], call[1].reply.raises[1].text)
    /\ call[1].ret = None

\* ---------------------------------------------------------------- C7
\* the request an analyze action sends: two messages, the fixed system
\* prompt and then the uploaded transcript, at temperature 0.0
WellFormed(req, file) ==
    /\ Len(req.messages) = 2
    /\ req.messages[1] = [role |-> "system", content |-> HYPER_DETAILED_PROMPT]
    /\ req.messages[2] = [role |-> "user", content |-> decode(file[1])[1]]
    /\ req.temperature = TEMPERATURE

\* C7 as stated: every analyze action issues exactly one request, of the
\* stated form, and no other step issues any.
C7_ExactlyOneRequest ==
    [][/\ Len(log') = Len(log) + 1 =>
             /\ Len(requests') = Len(requests) + 1
             /\ SubSeq(requests', 1, Len(requests)) = requests
             /\ WellFormed(requests'[Len(requests')], uploaded_file')
       /\ Len(log') = Len(log) => requests' = requests]_vars

\* C7 amended: every analyze action issues at most one request: exactly
\* one, of the stated form, when the client is constructed, and none when
\* the constructor raises; no other step issues any, so a failed request
\* is followed by another only after the next analyze action.
C7_AtMostOneRequest ==
    [][/\ Len(log') = Len(log) + 1 =>
             IF ClientError(azure'["AZURE_ENDPOINT"]) = None
             THEN /\ Len(requests') = Len(requests) + 1
                  /\ SubSeq(requests', 1, Len(requests)) = requests
                  /\ WellFormed(requests'[Len(requests')], uploaded_file')
             ELSE requests' = requests
       /\ Len(log') = Len(log) => requests' = requests]_vars

\* one analyze action has run, its request failed, and it is the only
\* request
C7_Witness ==
    /\ log = <<"error">>
    /\ Len(requests) = 1
    /\ IsSome(call) /\ IsSome(call[1].reply.raises)
    /\ WellFormed(requests[1], uploaded_file)

\* ---------------------------------------------------------------- C8
\* C8: whenever the secrets check fails, the message names the
\* azure_openai section and each of its keys api_key, endpoint and
\* deployment_name, and the script stops with no request made.
C8_MessageNamesKeys ==
    (loaded /\ halted) =>
        /\ IsSome(error)
        /\ Mentions(error[1], "[azure_openai]")
              \/ Mentions(error[1], "azure_openai")
        /\ \A k \in NestedKeys : Mentions(error[1], k)
        /\ Gated

\* ---------------------------------------------------------------- C9
Digits == {DigitChars[i] : i \in DOMAIN DigitChars}

\* Lighthouse_Requirements_<YYYYMMDD_HHMMSS>.txt
NameOK(fn) ==
    /\ Len(fn) = 17
    /\ fn[1] = "Lighthouse_Requirements_"
    /\ \A i \in 2..9 : fn[i] \in Digits
    /\ fn[10] = "_"
    /\ \A i \in 11..16 : fn[i] \in Digits
    /\ fn[17] = ".txt"

\* C9: when an analyze action's call succeeds with text T, the empty text
\* included, the page renders exactly T and offers a text/plain download
\* of the UTF-8 bytes of T under the timestamped name; when the call
\* fails, the page offers neither.
C9_ResultShownAndDownloadable ==
    /\ (CallSucceeded /\ IsSome(FirstContent)) =>
          /\ page.markdown = FirstContent
          /\ IsSome(page.download)
          /\ page.download[1].data = encode(FirstContent[1])
          /\ page.download[1].mime = "text/plain"
          /\ NameOK(page.download[1].file_name)
    /\ CallRaised => page.markdown = None /\ page.download = None

\* ---------------------------------------------------------------- C10
\* the last run's request was sent and the provider call failed
ProviderCallFailed ==
    /\ IsSome(call)
    /\ ClientError(azure["AZURE_ENDPOINT"]) = None
    /\ IsSome(call[1].reply.raises) \/ call[1].reply.choices = <<>>

\* C10: a provider-call error leaves the script neither stopped nor
\* crashed, with the uploader and the generate button on the page and the
\* credentials unchanged; the next analyze action sends one new request
\* with the same credentials, and if that call succeeds its content is
\* returned and, when non-empty, rendered and offered for download.
C10_UsableAfterError ==
    [][/\ ProviderCallFailed' =>
             /\ ~halted' /\ exception' = None
             /\ uploader' /\ button'
             /\ azure' = azure
       /\ (ProviderCallFailed /\ Len(log') = Len(log) + 1) =>
             /\ ~halted' /\ azure' = azure
             /\ Len(requests') = Len(requests) + 1
             /\ LET new == requests'[Len(requests')]
                    old == requests[Len(requests)]
                IN  /\ new.api_key = old.api_key
                    /\ new.azure_endpoint = old.azure_endpoint
                    /\ new.model = old.model
                    /\ new.api_version = old.api_version
             /\ CallSucceeded' =>
                   /\ call'[1].ret = FirstContent'
                   /\ error' = None
                   /\ log'[Len(log')] = "ok"
                   /\ (IsSome(FirstContent') /\ FirstContent' # Some(<<>>)) =>
                         /\ page'.success
                         /\ page'.markdown = FirstContent'
                         /\ page'.download[1].data = encode(FirstContent'[1])
      ]_vars

\* the first analyze action failed at the provider, the second succeeded
\* with the same credentials and its result is on the page
C10_Witness ==
    /\ log = <<"error", "ok">>
    /\ Len(requests) = 2
    /\ requests[1].api_key = requests[2].api_key
    /\ requests[1].azure_endpoint = requests[2].azure_endpoint
    /\ ~halted /\ page.success
    /\ IsSome(call) /\ page.markdown = call[1].ret

====
